---- MODULE Spec2Model ----
(***************************************************************************)
(* A model of crodump's Datafile (src/crodump/Datafile.py): one .dat       *)
(* container with its .tad index.  Files are sequences of bytes; the       *)
(* object's attributes are the record `self`; a call in progress is held   *)
(* in `pc` and in the frame of its locals.                                 *)
(*                                                                         *)
(* A 32-bit word that may exceed 2^31-1 (the index's length word) is kept  *)
(* as its four little-endian bytes, as it lies in the file.                *)
(***************************************************************************)
EXTENDS Integers, Sequences, FiniteSets, TLC

VARIABLES
    dat,      \* the container stream (.dat): its bytes
    tad,      \* the index stream (.tad): its bytes
    datpos,   \* file position of the container stream
    pc,       \* "new" | "failed" | "idle" | "ext" | "dump" | "dumpext" | "done";
              \* "detect" | "detected" when iscompressed is run on its own
    self,     \* the Datafile object's attributes
    rr,       \* readrec's locals
    dm,       \* dump's locals
    ret,      \* what the last call returned or raised, and the stages it ran
    hist,     \* the first readrec call made on the fresh object, and its return
    data,     \* the buffer handed to iscompressed on its own
    detres    \* what iscompressed returned for data

vars == <<dat, tad, datpos, pc, self, rr, dm, ret, hist, data, detres>>

----------------------------------------------------------------------------
(* Bounds of the model. *)

\* descriptors in the index
MaxRecs == 2
\* byte ranges dump records before the model stops following it
MaxRanges == 6
\* bytes between the first chunk header and the trailer of a detector input
MaxMid == 5

----------------------------------------------------------------------------
(* Bytes, slices, integers in the file. *)

Min(a, b) == IF a < b THEN a ELSE b

\* Python's s[a:b] for 0 <= a and 0 <= b
Slice(s, a, b) == SubSeq(s, a + 1, Min(b, Len(s)))

\* Python's s[a:]
SliceFrom(s, a) == Slice(s, a, Len(s))

RECURSIVE LEValue(_)
\* struct's "<L" / "<Q" / "<H": the little-endian value of the bytes
LEValue(bs) == IF bs = <<>> THEN 0 ELSE Head(bs) + 256 * LEValue(Tail(bs))

\* struct's ">H" at offset o (0-based)
BEValue16(d, o) == d[o + 1] * 256 + d[o + 2]

RECURSIVE LEBytes(_, _)
\* n written little-endian on w bytes
LEBytes(n, w) == IF w = 0 THEN <<>> ELSE <<n % 256>> \o LEBytes(n \div 256, w - 1)

RECURSIVE Concat(_)
Concat(ss) == IF ss = <<>> THEN <<>> ELSE Head(ss) \o Concat(Tail(ss))

\* file.read(size) at position pos
FileRead(f, pos, size) == Slice(f, pos, pos + size)

\* Python's list[i], negative indices included
PyIndex(list, i) ==
    IF 0 <= i /\ i < Len(list) THEN [ok |-> TRUE, val |-> list[i + 1]]
    ELSE IF i < 0 /\ -i <= Len(list) THEN [ok |-> TRUE, val |-> list[Len(list) + i + 1]]
    ELSE [ok |-> FALSE, val |-> <<>>]

----------------------------------------------------------------------------
(* What the header holds. *)

CroMagic == <<67, 114, 111, 70, 105, 108, 101, 0>>
XroMagic == <<88, 114, 111, 70, 105, 108, 101, 0>>
V0102 == <<48, 49, 46, 48, 50>>
V0103 == <<48, 49, 46, 48, 51>>
V0104 == <<48, 49, 46, 48, 52>>
V0105 == <<48, 49, 46, 48, 53>>
V0111 == <<48, 49, 46, 49, 49>>
DeletedWord == <<255, 255, 255, 255>>
\* struct.calcsize("<8sH5sHH"): magic, uint16, version, uint16, uint16
HdrSize == Len(CroMagic) + 2 + Len(V0102) + 2 + 2

NoSelf ==
    [hdrunk |-> 0, version |-> <<>>, encoding |-> 0, blocksize |-> 0,
     use64bit |-> FALSE, nrdeleted |-> 0, firstdeleted |-> 0,
     tadidx |-> <<>>, datsize |-> 0]

NoRet == [op |-> "-", kind |-> "-", val |-> <<>>, chunks |-> <<>>, err |-> "", path |-> <<>>]

NoRR ==
    [idx |-> 0, word |-> <<>>, flags |-> 0, ln |-> 0, prim |-> <<>>, kind |-> "-",
     encdat |-> <<>>, extofs |-> 0, extlen |-> 0, short |-> FALSE, looped |-> FALSE,
     pos0 |-> 0]

NoDM ==
    [i |-> 0, decompress |-> FALSE, verbose |-> FALSE, ranges |-> <<>>,
     flags |-> 0, encdat |-> <<>>, extofs |-> 0, extlen |-> 0, tail |-> <<>>,
     unref |-> <<>>]

NoHist == [fresh |-> TRUE, idx |-> -1, ret |-> NoRet]

Error(op, err, path) ==
    [op |-> op, kind |-> "error", val |-> <<>>, chunks |-> <<>>, err |-> err, path |-> path]

----------------------------------------------------------------------------
(* Datafile.__init__, readdathdr, readtad. *)

\* readdathdr: the 19 header bytes unpacked with "<8sH5sHH"
readdathdr(d) ==
    LET hdrdata == FileRead(d, 0, HdrSize)
        magic == Slice(hdrdata, 0, 8)
        version == Slice(hdrdata, 10, 15)
        fields == [hdrunk |-> LEValue(Slice(hdrdata, 8, 10)),
                   version |-> version,
                   encoding |-> LEValue(Slice(hdrdata, 15, 17)),
                   blocksize |-> LEValue(Slice(hdrdata, 17, 19)),
                   use64bit |-> (version = V0103)]
    IN  IF Len(hdrdata) # HdrSize THEN [err |-> "struct.error", fields |-> fields]
        ELSE IF magic # CroMagic THEN [err |-> "not a Crofile", fields |-> fields]
        ELSE IF version = V0111
             THEN [err |-> "v01.11 format is not yet supported", fields |-> fields]
        ELSE [err |-> "", fields |-> fields]

\* one descriptor of the index, unpacked with "<QLL" (w = 8) or "<LLL" (w = 4)
unpackDescriptor(indexdata, k, w) ==
    LET o == (w + 8) * k
    IN  [ofs |-> LEValue(Slice(indexdata, o, o + w)),
         ln |-> Slice(indexdata, o + w, o + w + 4),
         chk |-> LEValue(Slice(indexdata, o + w + 4, o + w + 8))]

\* readtad: the index header and the descriptors after it
readtad(t, use64bit) ==
    LET hdrdata == FileRead(t, 0, 8)
        indexdata == SliceFrom(t, Len(hdrdata))
        w == IF use64bit THEN 8 ELSE 4
        n == Len(indexdata) \div (w + 8)
    IN  IF Len(hdrdata) # 8
        THEN [err |-> "struct.error", nrdeleted |-> 0, firstdeleted |-> 0,
              tadidx |-> <<>>, leftover |-> FALSE]
        ELSE [err |-> "",
              nrdeleted |-> LEValue(Slice(hdrdata, 0, 4)),
              firstdeleted |-> LEValue(Slice(hdrdata, 4, 8)),
              tadidx |-> [k \in 1..n |-> unpackDescriptor(indexdata, k - 1, w)],
              leftover |-> (Len(indexdata) % (w + 8) # 0)]

\* __init__: the object and what the constructor returned or raised
construct(d, t) ==
    LET h == readdathdr(d)
        x == readtad(t, h.fields.use64bit)
    IN  IF h.err # ""
        THEN [ok |-> FALSE, self |-> NoSelf,
              ret |-> Error("__init__", h.err, <<"readdathdr">>)]
        ELSE IF x.err # ""
        THEN [ok |-> FALSE, self |-> NoSelf,
              ret |-> Error("__init__", x.err, <<"readdathdr", "readtad">>)]
        ELSE [ok |-> TRUE,
              self |-> [hdrunk |-> h.fields.hdrunk, version |-> h.fields.version,
                        encoding |-> h.fields.encoding, blocksize |-> h.fields.blocksize,
                        use64bit |-> h.fields.use64bit, nrdeleted |-> x.nrdeleted,
                        firstdeleted |-> x.firstdeleted, tadidx |-> x.tadidx,
                        datsize |-> Len(d)],
              ret |-> [op |-> "__init__", kind |-> "ok", val |-> <<>>, chunks |-> <<>>,
                       err |-> "", path |-> <<"readdathdr", "readtad", "datsize">>]]

Construct ==
    /\ pc = "new"
    /\ LET c == construct(dat, tad)
       IN  /\ pc' = IF c.ok THEN "done" ELSE "failed"
           /\ self' = c.self
           /\ ret' = c.ret
           \* dat.seek(0, SEEK_END) is the constructor's last move
           /\ datpos' = IF c.ok THEN Len(dat) ELSE datpos
    /\ UNCHANGED <<dat, tad, rr, dm, hist, data, detres>>

nrofrecords == Len(self.tadidx)

----------------------------------------------------------------------------
(* readdata, koddecode, iscompressed, decompress. *)

readdata_seekunless0(ofs, size) ==
    LET p == IF ofs = 0 THEN datpos ELSE ofs
        d == FileRead(dat, p, size)
    IN  [data |-> d, pos |-> p + Len(d)]

\* readdata: seek to ofs, read size bytes; the bytes and the position left
readdata(ofs, size) ==
    LET p == ofs
        d == FileRead(dat, p, size)
    IN  [data |-> d, pos |-> p + Len(d)]

\* koddecoder.koddecode: a keyed byte substitution; the output has the input's length
koddecode(idx, d) == [k \in 1..Len(d) |-> (d[k] + idx + k) % 256]

RECURSIVE iscompressedWalk(_, _)
iscompressedWalk(d, o) ==
    IF o < Len(d) - 3
    THEN LET size == BEValue16(d, o)
             flag == BEValue16(d, o + 2)
         IN  IF flag # 2048 /\ flag # 8 THEN "None"
             ELSE iscompressedWalk(d, o + size + 2)
    ELSE "True"

\* iscompressed: "True", or "None" (Python's bare return)
iscompressed(d) ==
    IF Len(d) < 11 THEN "None"
    ELSE IF Slice(d, Len(d) - 3, Len(d)) # <<0, 0, 2>> THEN "None"
    ELSE iscompressedWalk(d, 0)

RECURSIVE decompressWalk(_, _, _)
decompressWalk(d, o, result) ==
    IF o < Len(d) - 3
    THEN LET size == BEValue16(d, o)
         IN  IF o + 8 > Len(d) THEN [err |-> "struct.error", chunks |-> result]
             ELSE decompressWalk(d, o + size + 2,
                                 Append(result, Slice(d, o + 8, o + 8 + size - 6)))
    ELSE [err |-> "", chunks |-> result]

\* decompress: the result is the inflation of each chunk's payload, in order; zlib
\* is not modelled, the result is held as the payloads handed to it
decompress(d) == decompressWalk(d, 0, <<>>)

----------------------------------------------------------------------------
(* readrec. *)

\* ln == 0xFFFFFFFF
isDeleted(word) == word = DeletedWord

\* flags = ln >> 24
flagsOf(word) == word[4]

\* ln &= 0xFFFFFFF
lengthOf(word) == word[1] + 256 * word[2] + 65536 * word[3] + 16777216 * (word[4] % 16)

recnumInvalid_never(idx) == FALSE

\* if idx == 0: raise
recnumInvalid(idx) == idx = 0

kodEnabled_bit1 == (self.encoding \div 2) % 2 = 1

\* self.encoding & 1
kodEnabled == self.encoding % 2 = 1

\* lines 116-121: KOD, the detector, the decompressor; what readrec returns
transform(idx, encdat, path) ==
    LET k == IF kodEnabled THEN koddecode(idx, encdat) ELSE encdat
        p1 == IF kodEnabled THEN Append(path, "koddecode") ELSE path
        p2 == Append(p1, "iscompressed")
        z == decompress(k)
    IN  IF iscompressed(k) # "True"
        THEN [op |-> "readrec", kind |-> "bytes", val |-> k, chunks |-> <<>>,
              err |-> "", path |-> p2]
        ELSE IF z.err # "" THEN Error("readrec", z.err, Append(p2, "decompress"))
        ELSE [op |-> "readrec", kind |-> "inflated", val |-> <<>>, chunks |-> z.chunks,
              err |-> "", path |-> Append(p2, "decompress")]

\* lines 90-107: up to the extension loop, or to the return when there is none
readrecStart(idx) ==
    LET e == PyIndex(self.tadidx, idx - 1)
        word == e.val.ln
        flags == flagsOf(word)
        ln == lengthOf(word)
        r == readdata(e.val.ofs, ln)
        frame == [NoRR EXCEPT !.idx = idx, !.word = word, !.flags = flags, !.ln = ln,
                              !.prim = r.data]
    IN  IF recnumInvalid(idx)
        THEN [pc |-> "done", pos |-> datpos, rr |-> [NoRR EXCEPT !.idx = idx],
              ret |-> Error("readrec", "recnum must be a positive number", <<>>)]
        ELSE IF ~e.ok
        THEN [pc |-> "done", pos |-> datpos, rr |-> [NoRR EXCEPT !.idx = idx],
              ret |-> Error("readrec", "IndexError", <<>>)]
        ELSE IF isDeleted(word)
        THEN [pc |-> "done", pos |-> datpos,
              rr |-> [NoRR EXCEPT !.idx = idx, !.word = word, !.kind = "deleted"],
              ret |-> [NoRet EXCEPT !.op = "readrec", !.kind = "none",
                                    !.path = <<"deleted">>]]
        ELSE IF r.data = <<>>
        THEN [pc |-> "done", pos |-> r.pos, rr |-> [frame EXCEPT !.kind = "empty"],
              ret |-> transform(idx, r.data, <<"empty">>)]
        ELSE IF flags = 0
        THEN IF Len(Slice(r.data, 0, 8)) # 8
             THEN [pc |-> "done", pos |-> r.pos, rr |-> [frame EXCEPT !.kind = "extended"],
                   ret |-> Error("readrec", "struct.error", <<"extended">>)]
             ELSE [pc |-> "ext", pos |-> r.pos,
                   rr |-> [frame EXCEPT !.kind = "extended",
                                        !.extofs = LEValue(Slice(r.data, 0, 4)),
                                        !.extlen = LEValue(Slice(r.data, 4, 8)),
                                        !.encdat = SliceFrom(r.data, 8)],
                   ret |-> NoRet]
        ELSE [pc |-> "done", pos |-> r.pos,
              rr |-> [frame EXCEPT !.kind = "inline", !.encdat = r.data],
              ret |-> transform(idx, r.data, <<"inline">>)]

ReadrecCall ==
    /\ pc = "idle"
    /\ \E idx \in 0..(nrofrecords + 1) :
        LET s == readrecStart(idx)
        IN  /\ pc' = s.pc
            /\ datpos' = s.pos
            /\ rr' = [s.rr EXCEPT !.pos0 = datpos]
            /\ ret' = s.ret
            /\ hist' = IF hist.fresh THEN [fresh |-> FALSE, idx |-> idx, ret |-> NoRet]
                       ELSE hist
    /\ UNCHANGED <<dat, tad, self, dm, data, detres>>

\* lines 108-111: one turn of the extension loop
ReadrecExtStep ==
    /\ pc = "ext"
    /\ Len(rr.encdat) < rr.extlen
    /\ LET r == readdata(rr.extofs, self.blocksize)
           ptr == Slice(r.data, 0, 4)
       IN  /\ datpos' = r.pos
           /\ IF Len(ptr) # 4
              THEN /\ pc' = "done"
                   /\ ret' = Error("readrec", "struct.error", <<"extended">>)
                   /\ rr' = [rr EXCEPT !.looped = TRUE,
                                       !.short = @ \/ Len(r.data) < self.blocksize]
              ELSE /\ pc' = "ext"
                   /\ ret' = ret
                   /\ rr' = [rr EXCEPT !.extofs = LEValue(ptr),
                                       !.encdat = @ \o SliceFrom(r.data, 4),
                                       !.looped = TRUE,
                                       !.short = @ \/ Len(r.data) < self.blocksize]
    /\ UNCHANGED <<dat, tad, self, dm, hist, data, detres>>

\* lines 112-121: the loop is over; cut to extlen, transform, return
ReadrecExtExit ==
    /\ pc = "ext"
    /\ ~(Len(rr.encdat) < rr.extlen)
    /\ LET encdat == Slice(rr.encdat, 0, rr.extlen)
       IN  /\ rr' = [rr EXCEPT !.encdat = encdat]
           /\ ret' = transform(rr.idx, encdat, <<"extended">>)
    /\ pc' = "done"
    /\ UNCHANGED <<dat, tad, datpos, self, dm, hist, data, detres>>

\* the public readdata(ofs, size)
ReadRaw ==
    /\ pc = "idle"
    /\ \E ofs \in {0, HdrSize}, size \in {4} :
        LET r == readdata(ofs, size)
        IN  /\ datpos' = r.pos
            /\ ret' = [NoRet EXCEPT !.op = "readdata", !.kind = "bytes", !.val = r.data]
    /\ pc' = "done"
    /\ hist' = [hist EXCEPT !.fresh = FALSE]
    /\ UNCHANGED <<dat, tad, self, rr, dm, data, detres>>

\* the call is over: its locals go, the caller has the result
Return ==
    /\ pc = "done"
    /\ pc' = "idle"
    /\ rr' = NoRR
    /\ dm' = NoDM
    /\ ret' = NoRet
    /\ hist' = IF ret.op = "readrec" /\ hist.idx = rr.idx /\ hist.ret = NoRet
                  /\ hist.idx >= 0
               THEN [hist EXCEPT !.ret = ret]
               ELSE hist
    /\ UNCHANGED <<dat, tad, datpos, self, data, detres>>

----------------------------------------------------------------------------
(* enumunreferenced and dump. *)

\* a range is <<start, end, i, ext>>: the description "item #i" (ext = 0) or
\* "item #i ext" (ext = 1) sorts, for i < 10, as the pair <<i, ext>>
RangeLE(a, b) ==
    \/ a[1] < b[1]
    \/ a[1] = b[1] /\ a[2] < b[2]
    \/ a[1] = b[1] /\ a[2] = b[2] /\ a[3] < b[3]
    \/ a[1] = b[1] /\ a[2] = b[2] /\ a[3] = b[3] /\ a[4] <= b[4]

RECURSIVE insertSorted(_, _)
insertSorted(x, s) ==
    IF s = <<>> THEN <<x>>
    ELSE IF RangeLE(x, Head(s)) THEN <<x>> \o s
    ELSE <<Head(s)>> \o insertSorted(x, Tail(s))

RECURSIVE sorted(_)
\* Python's sorted(ranges)
sorted(rs) == IF rs = <<>> THEN <<>> ELSE insertSorted(Head(rs), sorted(Tail(rs)))

RECURSIVE enumWalk(_, _, _, _)
enumWalk(rs, o, filesize, out) ==
    IF rs = <<>>
    THEN IF o < filesize THEN Append(out, <<o, filesize - o>>) ELSE out
    ELSE LET start == Head(rs)[1]
             end == Head(rs)[2]
         IN  enumWalk(Tail(rs), end, filesize,
                      IF start > o THEN Append(out, <<o, start - o>>) ELSE out)

\* enumunreferenced: the <<offset, length>> pairs it yields, in order
enumunreferenced(ranges, filesize) == enumWalk(sorted(ranges), 0, filesize, <<>>)

\* lines 194-206 of dump: KOD, then the decompressor when asked for; the error, if any
dumpDecode(i, encdat, decomp) ==
    LET decdat == IF kodEnabled THEN koddecode(i + 1, encdat) ELSE encdat
    IN  IF decomp /\ iscompressed(decdat) = "True" THEN decompress(decdat).err ELSE ""

DumpCall ==
    /\ pc = "idle"
    /\ \E decomp \in BOOLEAN, verbose \in BOOLEAN :
        dm' = [NoDM EXCEPT !.decompress = decomp, !.verbose = verbose]
    /\ pc' = "dump"
    /\ ret' = [NoRet EXCEPT !.op = "dump"]
    /\ hist' = [hist EXCEPT !.fresh = FALSE]
    /\ UNCHANGED <<dat, tad, datpos, self, rr, data, detres>>

\* lines 151-175 and 190-206: one descriptor, up to its extension loop
DumpRecord ==
    /\ pc = "dump"
    /\ dm.i < Len(self.tadidx)
    /\ LET e == self.tadidx[dm.i + 1]
           flags == flagsOf(e.ln)
           ln == lengthOf(e.ln)
           r == readdata(e.ofs, ln)
           ranges == Append(dm.ranges, <<e.ofs, e.ofs + ln, dm.i, 0>>)
           o == IF self.use64bit THEN 12 ELSE 8
           w == IF self.use64bit THEN 8 ELSE 4
           err == dumpDecode(dm.i, r.data, dm.decompress)
       IN  IF isDeleted(e.ln)
           THEN /\ dm' = [dm EXCEPT !.i = @ + 1]
                /\ UNCHANGED <<pc, ret, datpos>>
           ELSE /\ datpos' = r.pos
                /\ IF r.data # <<>> /\ flags = 0
                   THEN IF Len(Slice(r.data, 0, o)) # o
                        THEN /\ pc' = "done"
                             /\ ret' = Error("dump", "struct.error", <<>>)
                             /\ dm' = [dm EXCEPT !.ranges = ranges]
                        ELSE /\ pc' = "dumpext"
                             /\ ret' = ret
                             /\ dm' = [dm EXCEPT !.ranges = ranges, !.flags = flags,
                                           !.extofs = LEValue(Slice(r.data, 0, w)),
                                           !.extlen = LEValue(Slice(r.data, w, o)),
                                           !.encdat = SliceFrom(r.data, o)]
                   ELSE IF err # ""
                        THEN /\ pc' = "done"
                             /\ ret' = Error("dump", err, <<>>)
                             /\ dm' = [dm EXCEPT !.ranges = ranges]
                        ELSE /\ pc' = "dump"
                             /\ ret' = ret
                             /\ dm' = [dm EXCEPT !.ranges = ranges, !.i = @ + 1,
                                                 !.flags = flags, !.tail = <<>>]
    /\ UNCHANGED <<dat, tad, self, rr, hist, data, detres>>

\* lines 176-186: one turn of dump's extension loop
DumpExtStep ==
    /\ pc = "dumpext"
    /\ Len(dm.encdat) < dm.extlen
    /\ Len(dm.ranges) < MaxRanges
    /\ LET r == readdata(dm.extofs, self.blocksize)
           w == IF self.use64bit THEN 8 ELSE 4
           ptr == Slice(r.data, 0, w)
           ranges == Append(dm.ranges, <<dm.extofs, dm.extofs + self.blocksize, dm.i, 1>>)
       IN  /\ datpos' = r.pos
           /\ IF Len(ptr) # w
              THEN /\ pc' = "done"
                   /\ ret' = Error("dump", "struct.error", <<>>)
                   /\ dm' = [dm EXCEPT !.ranges = ranges]
              ELSE /\ pc' = "dumpext"
                   /\ ret' = ret
                   /\ dm' = [dm EXCEPT !.ranges = ranges, !.extofs = LEValue(ptr),
                                       !.encdat = @ \o SliceFrom(r.data, w)]
    /\ UNCHANGED <<dat, tad, self, rr, hist, data, detres>>

\* lines 187-206: the loop is over; tail, cut, decode, print
DumpExtExit ==
    /\ pc = "dumpext"
    /\ ~(Len(dm.encdat) < dm.extlen)
    /\ LET encdat == Slice(dm.encdat, 0, dm.extlen)
           err == dumpDecode(dm.i, encdat, dm.decompress)
       IN  IF err # ""
           THEN /\ pc' = "done"
                /\ ret' = Error("dump", err, <<>>)
                /\ dm' = dm
           ELSE /\ pc' = "dump"
                /\ ret' = ret
                /\ dm' = [dm EXCEPT !.i = @ + 1, !.tail = SliceFrom(dm.encdat, dm.extlen),
                                    !.encdat = <<>>, !.extofs = 0, !.extlen = 0]
    /\ UNCHANGED <<dat, tad, datpos, self, rr, hist, data, detres>>

\* lines 208-212: every descriptor is done; the unreferenced ranges, when verbose
DumpFinish ==
    /\ pc = "dump"
    /\ dm.i = Len(self.tadidx)
    /\ LET unref == IF dm.verbose THEN enumunreferenced(dm.ranges, self.datsize) ELSE <<>>
           last == unref[Len(unref)]
       IN  /\ dm' = [dm EXCEPT !.unref = unref]
           /\ datpos' = IF unref = <<>> THEN datpos ELSE readdata(last[1], last[2]).pos
    /\ pc' = "done"
    /\ ret' = [ret EXCEPT !.kind = "ok"]
    /\ UNCHANGED <<dat, tad, self, rr, hist, data, detres>>

----------------------------------------------------------------------------
(* iscompressed on its own. *)

DetectCall ==
    /\ pc = "detect"
    /\ detres' = iscompressed(data)
    /\ pc' = "detected"
    /\ UNCHANGED <<dat, tad, datpos, self, rr, dm, ret, hist, data>>

----------------------------------------------------------------------------
(* The archives the model reads. *)

\* a 12-byte compressed envelope: one chunk (size 7, flag 0x0800, crc, one byte of
\* payload) and the trailer 00 00 02
Envelope == <<0, 7, 8, 0, 91, 92, 93, 94, 95, 0, 0, 2>>

OffZ == HdrSize
OffF == OffZ + Len(Envelope)
OffA(w) == OffF + w + 4 + 2

\* where a pointer of the chain leads: block A, the primary fragment F, or the end
Target(t, w, la) ==
    CASE t = "A" -> OffA(w)
      [] t = "F" -> OffF
      [] OTHER -> OffA(w) + la

\* the container: header, envelope Z, primary fragment F (next, total, 2 bytes),
\* and the la bytes of block A (next, 4 bytes) that lie before the end of the file
MkDat(magic, version, enc, shape) ==
    LET w == IF version = V0103 THEN 8 ELSE 4
    IN  magic \o <<0, 0>> \o version \o LEBytes(enc, 2) \o LEBytes(shape.bs, 2)
        \o Envelope
        \o LEBytes(Target(shape.nx1, w, shape.la), w) \o LEBytes(shape.tl, 4) \o <<101, 102>>
        \o Slice(LEBytes(Target(shape.nx2, w, shape.la), w) \o <<111, 112, 113, 114>>,
                 0, shape.la)

\* the descriptors the index may hold: <<offset, length-and-flags word>>
Descriptor(name, w) ==
    CASE name = "del" -> <<0, DeletedWord>>
      [] name = "ext" -> <<OffF, LEBytes(w + 6, 3) \o <<0>>>>
      [] name = "big" -> <<0, LEBytes(OffA(w) + 2, 3) \o <<128>>>>
      [] name = "emp" -> <<OffF, <<0, 0, 0, 0>>>>
      [] name = "nib" -> <<OffA(w), <<2, 0, 0, 1>>>>
      [] OTHER -> <<OffZ, LEBytes(Len(Envelope), 3) \o <<128>>>>

MkTad(version, names, extra) ==
    LET w == IF version = V0103 THEN 8 ELSE 4
    IN  LEBytes(0, 4) \o LEBytes(0, 4)
        \o Concat([k \in 1..Len(names) |->
                     LEBytes(Descriptor(names[k], w)[1], w)
                     \o Descriptor(names[k], w)[2] \o LEBytes(0, 4)])
        \o extra

Menu == {"del", "ext", "big", "emp", "nib", "cmp"}

Tables(menu, n) == UNION {[1..k -> menu] : k \in 0..n}

Shape(bs, la, nx1, nx2, tl) == [bs |-> bs, la |-> la, nx1 |-> nx1, nx2 |-> nx2, tl |-> tl]

\* block sizes against the bytes of block A in the file: too small for a pointer,
\* a pointer and nothing else, a block cut short by the end of the file, a full block
Blocks == {<<3, 8>>, <<4, 8>>, <<8, 4>>, <<8, 6>>, <<8, 8>>}
Chains == {<<"A", "A">>, <<"A", "F">>, <<"A", "E">>, <<"E", "A">>}
Totals == {1, 4, 9}

ChainShapes ==
    {Shape(b[1], b[2], c[1], c[2], tl) : b \in Blocks, c \in Chains, tl \in Totals}

ReadShapes == {Shape(8, 8, "A", "E", 4), Shape(8, 6, "A", "A", 9)}

Fresh(d, t) ==
    /\ dat = d
    /\ tad = t
    /\ datpos = 0
    /\ pc = "new"
    /\ self = NoSelf
    /\ rr = NoRR
    /\ dm = NoDM
    /\ ret = NoRet
    /\ hist = NoHist
    /\ data = <<>>
    /\ detres = "-"

Init ==
    \E version \in {V0102, V0103}, enc \in {0, 1}, shape \in ReadShapes,
       names \in Tables(Menu, MaxRecs) :
        Fresh(MkDat(CroMagic, version, enc, shape), MkTad(version, names, <<>>))

InitChain ==
    \E version \in {V0102, V0103}, enc \in {0, 1}, shape \in ChainShapes,
       names \in {<<"ext">>} :
        Fresh(MkDat(CroMagic, version, enc, shape), MkTad(version, names, <<>>))

InitCtor ==
    \E magic \in {CroMagic, XroMagic}, version \in {V0102, V0103, V0104, V0105, V0111},
       enc \in {0, 1}, names \in Tables({"ext", "del"}, 1), extra \in {<<>>, <<7>>},
       cut \in {18, 64} :
        Fresh(Slice(MkDat(magic, version, enc, Shape(8, 8, "A", "E", 4)), 0, cut),
              MkTad(version, names, extra))

InitDump ==
    \E version \in {V0102, V0103}, enc \in {0, 1}, shape \in ReadShapes,
       names \in Tables(Menu, MaxRecs) :
        Fresh(MkDat(CroMagic, version, enc, shape), MkTad(version, names, <<>>))

\* detector inputs: a first chunk header, some bytes, a trailer
DetectInputs ==
    {<<0, size>> \o flag \o mid \o trailer :
        size \in {0, 2, 4, 5, 6, 7, 16},
        flag \in {<<8, 0>>, <<0, 8>>, <<8, 8>>},
        mid \in UNION {[1..k -> {0, 2, 8}] : k \in (MaxMid - 2)..MaxMid},
        trailer \in {<<0, 0, 2>>, <<0, 0, 0>>}}

InitDetect ==
    /\ data \in DetectInputs
    /\ detres = "-"
    /\ pc = "detect"
    /\ dat = <<>>
    /\ tad = <<>>
    /\ datpos = 0
    /\ self = NoSelf
    /\ rr = NoRR
    /\ dm = NoDM
    /\ ret = NoRet
    /\ hist = NoHist

Next ==
    \/ Construct
    \/ ReadrecCall
    \/ ReadrecExtStep
    \/ ReadrecExtExit
    \/ ReadRaw
    \/ Return

NextDump ==
    \/ Construct
    \/ DumpCall
    \/ DumpRecord
    \/ DumpExtStep
    \/ DumpExtExit
    \/ DumpFinish
    \/ Return

NextDetect == DetectCall

Spec == Init /\ [][Next]_vars
SpecChain == InitChain /\ [][Next]_vars
SpecCtor == InitCtor /\ [][Next]_vars
SpecDump == InitDump /\ [][NextDump]_vars
SpecDetect == InitDetect /\ [][NextDetect]_vars
\* once in the extension loop the interpreter runs each turn and the exit
SpecFair ==
    InitChain /\ [][Next]_vars /\ WF_vars(ReadrecExtStep) /\ WF_vars(ReadrecExtExit)

----------------------------------------------------------------------------
(* The claims. *)

ReadrecDone == pc = "done" /\ ret.op = "readrec"

\* the total_length of the primary fragment's prefix, in the archive's offset mode
PrefixTotal ==
    IF self.use64bit THEN LEValue(Slice(rr.prim, 8, 12)) ELSE LEValue(Slice(rr.prim, 4, 8))

\* C1: whenever readrec returns normally for an extended record, in 32-bit and in
\* 64-bit mode, the reassembled payload (before KOD and decompression) is exactly as
\* long as the total_length of that mode's prefix (bytes 4..8, or 8..12 for 01.03).
C1_ExtendedPayloadLength ==
    (ReadrecDone /\ rr.kind = "extended" /\ ret.kind # "error")
        => Len(rr.encdat) = PrefixTotal

\* C2: readrec raises for index 0 and for an index past the last descriptor, and
\* returns None, without raising, for a descriptor in range whose length word is
\* 0xFFFFFFFF.
C2_InvalidIndexFails ==
    ReadrecDone =>
        /\ (rr.idx = 0 \/ rr.idx > nrofrecords) => ret.kind = "error"
        /\ (rr.idx \in 1..nrofrecords /\ self.tadidx[rr.idx].ln = DeletedWord)
               => ret.kind = "none"

\* a call past the end has failed on an archive whose first call, on index 0, failed too
C2_Witness ==
    /\ ReadrecDone
    /\ nrofrecords >= 1
    /\ rr.idx > nrofrecords
    /\ ret.kind = "error"
    /\ hist.idx = 0
    /\ hist.ret.kind = "error"

\* C3 as stated: when the primary read of a non-deleted descriptor is empty, readrec
\* returns an empty buffer and goes straight to the return: neither KOD nor the
\* compression detector runs, whatever the encoding.
C3_EmptySkipsTransforms ==
    (ReadrecDone /\ rr.kind = "empty")
        => ret.kind = "bytes" /\ ret.val = <<>> /\ ret.path = <<"empty">>

\* C3 as amended: when the primary read of a non-deleted descriptor is empty, readrec
\* returns an empty buffer and never decompresses; KOD is still applied, to the empty
\* buffer, exactly when encoding bit 0 is set, and the detector still runs.
C3_EmptyStaysEmpty ==
    (ReadrecDone /\ rr.kind = "empty")
        => /\ ret.kind = "bytes"
           /\ ret.val = <<>>
           /\ ret.path = IF self.encoding % 2 = 1
                         THEN <<"empty", "koddecode", "iscompressed">>
                         ELSE <<"empty", "iscompressed">>

\* an empty record has been read from an archive with encoding bit 0 set
C3_Witness ==
    /\ ReadrecDone
    /\ rr.kind = "empty"
    /\ self.encoding % 2 = 1
    /\ ret.kind = "bytes"

AcceptedVersions == {V0102, V0103, V0104}

\* C4: construction succeeds only with the magic "CroFile\0" and a version among
\* 01.02, 01.03, 01.04; with any other version the index is never read.
C4_OnlyAcceptedVersions ==
    (ret.op = "__init__" /\ pc \in {"done", "failed"})
        => /\ ret.kind = "ok"
               => Slice(dat, 0, 8) = CroMagic /\ Slice(dat, 10, 15) \in AcceptedVersions
           /\ (Slice(dat, 0, 8) # CroMagic /\ Len(dat) >= 19)
               => ret.err = "not a Crofile"
           /\ (\E k \in 1..Len(ret.path) : ret.path[k] = "readtad")
               => Slice(dat, 10, 15) \in AcceptedVersions

RECURSIVE LandsExactly(_, _)
\* the chunk walk from o reaches Len(d) - 3 exactly, each flag being 0x0800 or 0x0008
LandsExactly(d, o) ==
    IF o = Len(d) - 3 THEN TRUE
    ELSE IF o > Len(d) - 3 THEN FALSE
    ELSE /\ BEValue16(d, o + 2) \in {2048, 8}
         /\ LandsExactly(d, o + BEValue16(d, o) + 2)

\* C5: iscompressed returns true iff the buffer has at least 11 bytes, ends with
\* 00 00 02, and the chunk walk from 0 lands exactly on Len - 3; a walk that jumps
\* past Len - 3 yields false.
C5_DetectorExact ==
    pc = "detected"
        => ((detres = "True")
               <=> /\ Len(data) >= 11
                   /\ SliceFrom(data, Len(data) - 3) = <<0, 0, 2>>
                   /\ LandsExactly(data, 0))

Touched(b) == \E k \in 1..Len(dm.ranges) : dm.ranges[k][1] <= b /\ b < dm.ranges[k][2]

UnrefAt(b) ==
    {k \in 1..Len(dm.unref) : dm.unref[k][1] <= b /\ b < dm.unref[k][1] + dm.unref[k][2]}

\* C6: after a verbose dump the touched ranges and the unreferenced ranges partition
\* [0, datsize): each byte is touched, or in exactly one unreferenced range, never
\* both, and no unreferenced range overlaps a touched one.
C6_RangesPartition ==
    (pc = "done" /\ ret.op = "dump" /\ ret.kind = "ok" /\ dm.verbose)
        => /\ \A b \in 0..(self.datsize - 1) :
                  Cardinality(UnrefAt(b)) = IF Touched(b) THEN 0 ELSE 1
           /\ \A u \in 1..Len(dm.unref), t \in 1..Len(dm.ranges) :
                  ~(/\ dm.unref[u][1] < dm.ranges[t][2]
                    /\ dm.ranges[t][1] < dm.unref[u][1] + dm.unref[u][2])

\* C7: once constructed, whatever readrec and readdata calls are made and in whatever
\* order, the object's attributes (descriptor table, header fields, datsize) stay what
\* the constructor set, and readrec(i) returns what it returned as the first call on
\* the fresh object, wherever earlier calls left the file position.
C7_ReadsIndependent ==
    /\ pc \notin {"new", "failed"} => self = construct(dat, tad).self
    /\ (ReadrecDone /\ rr.idx = hist.idx /\ hist.ret # NoRet) => ret = hist.ret

\* an extended record that took a block has been read again, from another file
\* position than the fresh object's, with its first result
C7_Witness ==
    /\ ReadrecDone
    /\ rr.idx = hist.idx
    /\ hist.ret # NoRet
    /\ rr.kind = "extended"
    /\ rr.looped
    /\ ret.kind = "bytes"
    /\ rr.pos0 # self.datsize
    /\ ret = hist.ret

\* C8: for a non-deleted descriptor the flags are the high 8 bits of the word and the
\* length requested for the primary fragment is its low 24 bits, with no flag bit in
\* it, whatever the flag byte.
C8_LengthIsLow24Bits ==
    (pc \in {"done", "ext"} /\ rr.kind \in {"empty", "extended", "inline"})
        => /\ rr.flags = rr.word[4]
           /\ rr.ln = rr.word[1] + 256 * rr.word[2] + 65536 * rr.word[3]

\* C9: the extension loop of readrec always ends, with the payload complete or with
\* an error, for every blocksize and every chain of next offsets.
C9_ExtensionLoopEnds == (pc = "ext") ~> (pc # "ext")

\* C10: when a block read during reassembly comes back shorter than blocksize (it
\* reaches past the end of the container) while the payload is still short of
\* total_length, readrec raises; it never returns a payload built from a short block.
C10_ShortBlockFails == (ReadrecDone /\ rr.short) => ret.kind = "error"

====
